---- MODULE Spec2Model ----
(***************************************************************************)
(* Model of the renderer process of the PDF viewer/editor (src/renderer.js)*)
(*                                                                         *)
(* The renderer is single threaded.  Every handler is an async function:   *)
(* it runs synchronously up to an `await` of a library promise, is         *)
(* suspended there, and resumes later.  A handler in flight is a task with *)
(* a program counter naming the await it is suspended at; suspended tasks  *)
(* resume in any order.  `await` of one of the renderer's own async        *)
(* functions continues in a microtask, so the caller's continuation is     *)
(* part of the step that ends the callee.                                  *)
(*                                                                         *)
(* pdf-lib and pdf.js are outside the repository; their calls are modelled *)
(* by their contract: a document is its list of pages, a page is its       *)
(* identity plus the marks drawn on it, save() snapshots the document at   *)
(* the call, and any library promise may reject.                           *)
(***************************************************************************)
EXTENDS Integers, Sequences, FiniteSets, TLC

\* ---------------------------------------------------------------- bounds
MaxPages == 3      \* addPage is offered while the document has fewer pages
MaxTasks == 2      \* handlers in flight at the same time
MaxEdits == 2      \* inline edits opened during a run
MaxCommits == 2    \* commits (Enter or blur) with a changed value
MaxFailures == 1   \* library promises that reject during a run
MaxStarts == 2     \* handlers started by the user in a run with overlapping handlers
SampleLen == 2     \* pages of the document on disk (sample.pdf / opened file)

VARIABLES
    editMode,          \* line 5
    pdfDoc,            \* line 6: the pdf-lib document, [live, pages, src]
    currentPageNum,    \* line 7
    totalPages,        \* line 8
    currentFileBytes,  \* line 9: [nil, pages]
    thumbnails,        \* page numbers of the items of #thumbnail-sidebar
    textLayer,         \* #text-layer: proxies, inline input, rendered page
    canvas,            \* id of the page painted on #pdf-canvas, 0 = blank
    buttons,           \* display of the delete / move-up / move-down / save buttons
    edits,             \* closures of the textLayer click handler, by edit
    tasks,             \* async handlers in flight, by slot
    failures,          \* rejected library promises so far
    commits,           \* calls of modifyPdfText that went past its guard
    started,           \* handlers the user has started, counted up to MaxStarts
    event,             \* the handler step taken last
    geom               \* itemData of the edited proxy and what modifyPdfText drew from it

vars == <<editMode, pdfDoc, currentPageNum, totalPages, currentFileBytes,
          thumbnails, textLayer, canvas, buttons, edits, tasks,
          failures, commits, started, event, geom>>

session == <<pdfDoc, currentPageNum, totalPages, currentFileBytes>>
dom == <<thumbnails, textLayer, canvas, buttons>>

Slots == 1..MaxTasks
EditIds == 1..MaxEdits

\* ------------------------------------------------------- library values
NilBytes == [nil |-> TRUE, pages |-> <<>>]
NoDoc == [live |-> FALSE, pages |-> <<>>, src |-> NilBytes]

\* A page of the file on disk: identity i, one text run, nothing drawn yet.
FilePage(i) == [id |-> i, marks |-> <<>>]
\* pdfDoc.addPage(): a blank page (identity 0, no text run).
BlankPage == [id |-> 0, marks |-> <<>>]
SampleBytes == [nil |-> FALSE, pages |-> [i \in 1..SampleLen |-> FilePage(i)]]

\* PDFDocument.load(bytes)
ParseDoc(bytes) == [live |-> TRUE, pages |-> bytes.pages, src |-> bytes]
\* PDFDocument.create()
CreateDoc == [live |-> TRUE, pages |-> <<>>, src |-> NilBytes]
\* pdfDoc.save()
Serialize(doc) == [nil |-> FALSE, pages |-> doc.pages]
\* pdfjsDoc.numPages
NumPages(bytes) == Len(bytes.pages)

\* pdfDoc.addPage()
AddPage(doc) == [doc EXCEPT !.pages = Append(@, BlankPage)]
\* removePage called with the 1-based page number: the page after is removed
RemovePageAfter(doc, index) ==
    [doc EXCEPT !.pages = SubSeq(@, 1, index + 1) \o SubSeq(@, index + 3, Len(@))]

\* pdfDoc.removePage(index), index 0-based and in range
RemovePage(doc, index) ==
    [doc EXCEPT !.pages = SubSeq(@, 1, index) \o SubSeq(@, index + 2, Len(@))]
\* pdfDoc.movePage(from, to), both 0-based and in range: the page leaves
\* position from and is inserted at position to.
MovePage(doc, from, to) ==
    LET ps == doc.pages
        p == ps[from + 1]
        rest == SubSeq(ps, 1, from) \o SubSeq(ps, from + 2, Len(ps))
    IN [doc EXCEPT !.pages = SubSeq(rest, 1, to) \o <<p>> \o SubSeq(rest, to + 1, Len(rest))]
InRange(doc, index) == index >= 0 /\ index < Len(doc.pages)

\* page.drawRectangle / page.drawText of edit e on the page at 0-based index
Mark(k, e) == [k |-> k, e |-> e]
DrawOn(doc, index, m) == [doc EXCEPT !.pages[index + 1].marks = Append(@, m)]

\* page.getTextContent().items: the run of the file's page, then one run per
\* text drawn on it (a covering rectangle hides glyphs, it removes no run).
RECURSIVE DrawnRuns(_)
DrawnRuns(ms) ==
    IF ms = <<>> THEN <<>>
    ELSE (IF Head(ms).k = "text" THEN <<Head(ms).e>> ELSE <<>>) \o DrawnRuns(Tail(ms))
TextRuns(page) == (IF page.id > 0 THEN <<0>> ELSE <<>>) \o DrawnRuns(page.marks)

\* the edits whose rectangle or text is in a byte buffer
MarksOf(bytes) ==
    UNION {{bytes.pages[i].marks[j].e : j \in 1..Len(bytes.pages[i].marks)} :
              i \in 1..Len(bytes.pages)}

\* ----------------------------------------------------------------- tasks
\* The session as a handler finds it when it starts.
Snapshot == [doc |-> pdfDoc, cur |-> currentPageNum, total |-> totalPages,
             bytes |-> currentFileBytes]
NoPre == [doc |-> NoDoc, cur |-> 0, total |-> 0, bytes |-> NilBytes]

\* kind: the handler; pc: the await it is suspended at; bytes: pdfBytes of
\* loadPdf (pdfjsDoc is parsed from a copy of it); pageNum: the argument of
\* renderPage; i: the loop index of renderThumbnails; edit, val: the closure
\* and input.value of onFinishEditing; pageIdx, stale: the local `page` of
\* modifyPdfText (its index in pdfDoc, or stale when it is a page of a
\* document object that pdfDoc no longer refers to); pre: Snapshot at the
\* start of a handler that starts while no other handler is in flight.
IdleTask == [kind |-> "idle", pc |-> "idle", bytes |-> NilBytes, pageNum |-> 0,
             i |-> 0, edit |-> 0, val |-> 0, pageIdx |-> 0, stale |-> FALSE,
             pre |-> NoPre]

Idle == \A s \in Slots : tasks[s].kind = "idle"
NewTask(kind, pc) ==
    [IdleTask EXCEPT !.kind = kind, !.pc = pc, !.pre = IF Idle THEN Snapshot ELSE NoPre]
FreeSlot(s) == tasks[s].kind = "idle" /\ \A r \in Slots : r < s => tasks[r].kind # "idle"

\* the handler t starts and is suspended at its first await; ts are the
\* other tasks
Spawn(ts, t) ==
    /\ started' = IF started < MaxStarts THEN started + 1 ELSE started
    /\ \E s \in Slots : FreeSlot(s) /\ tasks' = [ts EXCEPT ![s] = t]
NoSpawn == UNCHANGED <<tasks, started>>

Mutating == {"add", "delete", "up", "down", "finish"}
LoadPcs == {"load_parse", "load_getdoc", "thumb_getpage", "thumb_render",
            "page_getpage", "page_render", "text_content"}

\* The step taken last: the handler, how the step ended, the session the
\* handler started from (when the step ends it) and the bytes the step
\* handed to electronAPI.saveFile for writing (src/main.js line 44).
Ev(op, res, pre) == [op |-> op, res |-> res, pre |-> pre, out |-> NilBytes]

\* ------------------------------------------------------------------- DOM
EmptyLayer == [divs |-> <<>>, input |-> 0, focused |-> FALSE, pageNum |-> 0]
\* st: none (not opened yet), open, done (committed or abandoned); div: the
\* closure's proxy, as its position in the text layer, 0 once it has left it;
\* orig: itemData.str; value: input.value; res: how modifyPdfText ended for
\* the edit, none while it has not
NoEdit == [st |-> "none", div |-> 0, orig |-> 0, value |-> 0, res |-> "none"]
DoneEdit(res) == [st |-> "done", div |-> 0, orig |-> 0, value |-> 0, res |-> res]
BlankCanvas == [painted |-> FALSE, id |-> 0]

\* the user cannot click while the inline input has the focus: the click
\* first moves the focus away, which is the blur event
NoFocus == ~(textLayer.input # 0 /\ textLayer.focused)

Committing(ts, e) == \E s \in Slots : ts[s].kind = "finish" /\ ts[s].edit = e

\* textLayer.innerHTML = '': every proxy and the inline input leave the
\* document; a closure no handler is running for is garbage.
Detached(eds, ts) ==
    [e \in EditIds |->
        IF eds[e].st # "open" THEN eds[e]
        ELSE IF Committing(ts, e)
             THEN [st |-> "open", div |-> 0, orig |-> 0, value |-> 0, res |-> eds[e].res]
        ELSE DoneEdit(eds[e].res)]

\* renderTextLayer, lines 77-106: one proxy per run of the page
Proxies(page) ==
    LET runs == TextRuns(page)
    IN [k \in 1..Len(runs) |-> [str |-> runs[k], text |-> runs[k], shown |-> TRUE]]

\* updatePageActionButtons, lines 176-181
PageButtons(total, cur) ==
    [del |-> total > 0, up |-> total > 0 /\ cur > 1, down |-> total > 0 /\ cur < total]
WithPageButtons(b, total, cur) ==
    [b EXCEPT !.del = PageButtons(total, cur).del,
              !.up = PageButtons(total, cur).up,
              !.down = PageButtons(total, cur).down]

\* pdfDoc is assigned another document object: the `page` a suspended
\* modifyPdfText holds belongs to the old one.
Staled(ts) ==
    [s \in Slots |-> IF ts[s].pc = "embed_font" THEN [ts[s] EXCEPT !.stale = TRUE] ELSE ts[s]]
\* pdfDoc.removePage(index) on the object a suspended modifyPdfText holds a page of
AfterRemove(ts, index) ==
    [s \in Slots |->
        IF ts[s].pc # "embed_font" \/ ts[s].stale THEN ts[s]
        ELSE IF ts[s].pageIdx = index THEN [ts[s] EXCEPT !.stale = TRUE]
        ELSE IF ts[s].pageIdx > index THEN [ts[s] EXCEPT !.pageIdx = @ - 1]
        ELSE ts[s]]
\* pdfDoc.movePage(from, to) with |from - to| = 1 on that object
AfterMove(ts, from, to) ==
    [s \in Slots |->
        IF ts[s].pc # "embed_font" \/ ts[s].stale THEN ts[s]
        ELSE IF ts[s].pageIdx = from THEN [ts[s] EXCEPT !.pageIdx = to]
        ELSE IF ts[s].pageIdx = to THEN [ts[s] EXCEPT !.pageIdx = from]
        ELSE ts[s]]

\* -------------------------------------------------------------- geometry
\* Lengths drawn on a page are kept in tenths of a unit, so that the
\* factors 0.3 and 0.2 of lines 149 and 151 stay within the integers.
Tenths(v) == 10 * v

\* Math.sqrt, for the arguments that are squares (the transforms below)
Sqrt(n) == CHOOSE r \in 0..n : r * r <= n /\ n < (r + 1) * (r + 1)

\* itemData (lines 93-99): transform is [a, b, c, d, e, f], transform[k] of
\* the source is transform[k + 1] here
ItemData(a, b, c, d, e, f, w, h) ==
    [transform |-> <<a, b, c, d, e, f>>, width |-> w, height |-> h]
\* the runs an edit is tried on: upright with font size 1 and 12 and
\* turned with font size 5, at the origin and inside the page, empty and not
Anchors == {0, 1, 100}
Baselines == {0, 700}
Widths == {0, 7, 30}
Heights == {0, 12}
Slants == {<<0, 1>>, <<0, 12>>, <<3, 4>>}
Items ==
    {ItemData(cd[2], 0 - cd[1], cd[1], cd[2], e, f, w, h) :
        cd \in Slants, e \in Anchors, f \in Baselines, w \in Widths, h \in Heights}
\* page.getHeight() of the pages of the document
PageHeights == {792, 842}

\* line 141
FontSize(transform) == Sqrt(transform[3] * transform[3] + transform[4] * transform[4])
\* line 144 without the conversion: the top-down y is passed on
YTopDown(item, pageHeight) == item.transform[6]

\* line 144
YPdfLib(item, pageHeight) == pageHeight - item.transform[6]
\* the argument of page.drawRectangle, lines 147-153
CoverRect(item, pageHeight) ==
    [x |-> Tenths(item.transform[5] - 1),
     y |-> Tenths(YPdfLib(item, pageHeight)) - 3 * FontSize(item.transform),
     width |-> Tenths(item.width + 2),
     height |-> Tenths(item.height) + 2 * FontSize(item.transform)]
\* the position and size given to page.drawText, lines 156-162
TextAt(item, pageHeight) ==
    [x |-> Tenths(item.transform[5]),
     y |-> Tenths(YPdfLib(item, pageHeight)),
     size |-> Tenths(FontSize(item.transform))]

NoShape == [x |-> 0, y |-> 0, width |-> 0, height |-> 0, size |-> 0, drawn |-> FALSE]
Rect(r) == [NoShape EXCEPT !.x = r.x, !.y = r.y, !.width = r.width, !.height = r.height,
                           !.drawn = TRUE]
Text(t) == [NoShape EXCEPT !.x = t.x, !.y = t.y, !.size = t.size, !.drawn = TRUE]
\* no proxy is followed: the geometry of the runs is left out
NoGeom == [item |-> ItemData(0, 0, 0, 0, 0, 0, 0, 0), pageHeight |-> 0,
           rect |-> NoShape, text |-> NoShape]
\* lines 138-153 for the proxy that is followed
CoverDrawn(g) ==
    IF g = NoGeom THEN g ELSE [g EXCEPT !.rect = Rect(CoverRect(g.item, g.pageHeight))]
\* lines 156-162 for the proxy that is followed
TextDrawn(g) ==
    IF g = NoGeom THEN g ELSE [g EXCEPT !.text = Text(TextAt(g.item, g.pageHeight))]

\* ------------------------------------------------------------------ Init
\* The module has been evaluated: the globals have their initial values and
\* the start-up function (lines 300-310) is suspended at its fetch.  No line
\* of the script has set the display of a button yet, so all are displayed.
Init ==
    /\ editMode = FALSE
    /\ pdfDoc = NoDoc
    /\ currentPageNum = 1
    /\ totalPages = 0
    /\ currentFileBytes = NilBytes
    /\ thumbnails = {}
    /\ textLayer = EmptyLayer
    /\ canvas = BlankCanvas
    /\ buttons = [del |-> TRUE, up |-> TRUE, down |-> TRUE, save |-> TRUE]
    /\ edits = [e \in EditIds |-> NoEdit]
    /\ tasks = [s \in Slots |-> IF s = 1 THEN [IdleTask EXCEPT !.kind = "init", !.pc = "init_fetch"]
                                 ELSE IdleTask]
    /\ failures = 0
    /\ commits = 0
    /\ started = 0
    /\ event = Ev("init", "start", NoPre)
    /\ geom = NoGeom

\* ------------------------------------------------------- shared fragments
\* clearViewer without its line 184: the thumbnails stay
ClearViewerKeepsThumbnails(eds, ts) ==
    /\ UNCHANGED thumbnails
    /\ canvas' = BlankCanvas
    /\ textLayer' = EmptyLayer
    /\ edits' = Detached(eds, ts)
    /\ totalPages' = 0
    /\ currentPageNum' = 1
    /\ pdfDoc' = NoDoc
    /\ currentFileBytes' = NilBytes
    /\ buttons' = WithPageButtons(buttons, 0, 1)

\* clearViewer, lines 183-192; eds and ts are the closures and the tasks
\* the step leaves
ClearViewer(eds, ts) ==
    /\ thumbnails' = {}
    /\ canvas' = BlankCanvas
    /\ textLayer' = EmptyLayer
    /\ edits' = Detached(eds, ts)
    /\ totalPages' = 0
    /\ currentPageNum' = 1
    /\ pdfDoc' = NoDoc
    /\ currentFileBytes' = NilBytes
    /\ buttons' = WithPageButtons(buttons, 0, 1)

\* The handler in slot s is over.  What follows `await modifyPdfText` in
\* onFinishEditing (lines 288-290) then acts on a proxy and an input that the
\* reload has already taken out of the text layer.
Ended(s) == [tasks EXCEPT ![s] = IdleTask]
EditsAfter(s) ==
    IF tasks[s].kind = "finish" THEN [edits EXCEPT ![tasks[s].edit] = DoneEdit("applied")]
    ELSE edits

\* modifyPdfText raised for the edit of the handler in slot s
EditsFailed(s) ==
    IF tasks[s].kind = "finish" /\ edits[tasks[s].edit].res = "none"
    THEN [edits EXCEPT ![tasks[s].edit].res = "failed"]
    ELSE edits

\* A promise the handler in slot s awaits rejects.  Only the start-up
\* function catches (lines 306-309); any other handler just ends.
Rejected(s) ==
    /\ event' = Ev(tasks[s].kind, "fail", tasks[s].pre)
    /\ IF tasks[s].kind = "init"
       THEN /\ tasks' = Staled(Ended(s))
            /\ ClearViewer(edits, Ended(s))
       ELSE /\ tasks' = Ended(s)
            /\ edits' = EditsFailed(s)
            /\ UNCHANGED <<session, dom>>
    /\ UNCHANGED <<editMode, commits, started>>

\* loadPdf, line 30 up to the await of line 34, entered by the task in slot s
EnterLoad(s, bytes) ==
    /\ currentFileBytes' = bytes
    /\ tasks' = [tasks EXCEPT ![s].pc = "load_parse", ![s].bytes = bytes]
    /\ event' = Ev(tasks[s].kind, "step", NoPre)
    /\ UNCHANGED <<editMode, pdfDoc, currentPageNum, totalPages, dom, edits, failures, commits, started>>

\* --------------------------------------------------------------- start-up
\* lines 302-303: the fetch resolves; sample.pdf may be missing
InitFetchResume(s) ==
    /\ tasks[s].pc = "init_fetch"
    /\ \/ /\ tasks' = [tasks EXCEPT ![s].pc = "init_buffer"]
          /\ event' = Ev("init", "step", NoPre)
          /\ UNCHANGED <<session, dom, edits>>
       \/ /\ tasks' = Staled(Ended(s))
          /\ ClearViewer(edits, Ended(s))
          /\ event' = Ev("init", "missing", tasks[s].pre)
    /\ UNCHANGED <<editMode, failures, commits, started>>
    /\ UNCHANGED geom

\* lines 304-305
InitBufferResume(s) ==
    /\ tasks[s].pc = "init_buffer"
    /\ EnterLoad(s, SampleBytes)
    /\ UNCHANGED geom

\* ---------------------------------------------------------------- loadPdf
\* line 34 resumes, line 35 awaits
LoadParseResume(s) ==
    /\ tasks[s].pc = "load_parse"
    /\ pdfDoc' = ParseDoc(tasks[s].bytes)
    /\ tasks' = Staled([tasks EXCEPT ![s].pc = "load_getdoc"])
    /\ event' = Ev(tasks[s].kind, "step", NoPre)
    /\ UNCHANGED <<editMode, currentPageNum, totalPages, currentFileBytes, dom,
                   edits, failures, commits, started>>
    /\ UNCHANGED geom

\* line 35 resumes; lines 37-43 and renderThumbnails up to its first await
LoadGetDocResume(s) ==
    /\ tasks[s].pc = "load_getdoc"
    /\ IF NumPages(tasks[s].bytes) = 0
       THEN /\ tasks' = Staled(Ended(s))
            /\ ClearViewer(EditsAfter(s), Ended(s))
            /\ event' = Ev(tasks[s].kind, "cleared", tasks[s].pre)
       ELSE /\ totalPages' = NumPages(tasks[s].bytes)
            /\ thumbnails' = {}
            /\ tasks' = [tasks EXCEPT ![s].pc = "thumb_getpage", ![s].i = 1]
            /\ event' = Ev(tasks[s].kind, "step", NoPre)
            /\ UNCHANGED <<pdfDoc, currentPageNum, currentFileBytes, textLayer,
                           canvas, buttons, edits>>
    /\ UNCHANGED <<editMode, failures, commits, started>>
    /\ UNCHANGED geom

\* renderThumbnails, line 112 resumes, lines 113-127
ThumbGetPageResume(s) ==
    /\ tasks[s].pc = "thumb_getpage"
    /\ thumbnails' = thumbnails \cup {tasks[s].i}
    /\ tasks' = [tasks EXCEPT ![s].pc = "thumb_render"]
    /\ event' = Ev(tasks[s].kind, "step", NoPre)
    /\ UNCHANGED <<editMode, session, textLayer, canvas, buttons, edits, failures, commits, started>>
    /\ UNCHANGED geom

\* lines 45-50 without the upper clamp of lines 45-47
ClampNoUpper(cur, total) == IF cur < 1 THEN 1 ELSE cur

\* loadPdf, lines 45-50: the two tests one after the other
Clamp(cur, total) ==
    LET upper == IF cur > total THEN total ELSE cur
    IN IF upper < 1 THEN 1 ELSE upper

\* renderThumbnails, line 127 resumes: the next page, or the loop is over and
\* loadPdf goes on with lines 44-51 and renderPage up to its await (line 57)
ThumbRenderResume(s) ==
    /\ tasks[s].pc = "thumb_render"
    /\ IF tasks[s].i < NumPages(tasks[s].bytes)
       THEN /\ tasks' = [tasks EXCEPT ![s].pc = "thumb_getpage", ![s].i = @ + 1]
            /\ UNCHANGED currentPageNum
       ELSE /\ currentPageNum' = Clamp(currentPageNum, totalPages)
            /\ tasks' = [tasks EXCEPT ![s].pc = "page_getpage",
                                      ![s].pageNum = Clamp(currentPageNum, totalPages)]
    /\ event' = Ev(tasks[s].kind, "step", NoPre)
    /\ UNCHANGED <<editMode, pdfDoc, totalPages, currentFileBytes, dom, edits, failures, commits, started>>
    /\ UNCHANGED geom

\* ------------------------------------------------------------- renderPage
\* line 57 resumes (getPage rejects a page number the document has not),
\* lines 58-68
PageGetPageResume(s) ==
    /\ tasks[s].pc = "page_getpage"
    /\ IF tasks[s].pageNum \in 1..NumPages(tasks[s].bytes)
       THEN /\ tasks' = [tasks EXCEPT ![s].pc = "page_render"]
            /\ event' = Ev(tasks[s].kind, "step", NoPre)
            /\ UNCHANGED <<editMode, session, dom, edits, commits, started>>
       ELSE Rejected(s)
    /\ UNCHANGED failures
    /\ UNCHANGED geom

\* line 68 resumes: the page is painted; renderTextLayer awaits (line 76)
PageRenderResume(s) ==
    /\ tasks[s].pc = "page_render"
    /\ canvas' = [painted |-> TRUE, id |-> tasks[s].bytes.pages[tasks[s].pageNum].id]
    /\ tasks' = [tasks EXCEPT ![s].pc = "text_content"]
    /\ event' = Ev(tasks[s].kind, "step", NoPre)
    /\ UNCHANGED <<editMode, session, thumbnails, textLayer, buttons, edits, failures, commits, started>>
    /\ UNCHANGED geom

\* line 76 resumes: lines 77-106, then lines 71-72, and the handler is over
TextContentResume(s) ==
    /\ tasks[s].pc = "text_content"
    /\ textLayer' = [divs |-> Proxies(tasks[s].bytes.pages[tasks[s].pageNum]),
                     input |-> 0, focused |-> FALSE, pageNum |-> tasks[s].pageNum]
    /\ edits' = Detached(EditsAfter(s), Ended(s))
    /\ buttons' = WithPageButtons(buttons, totalPages, currentPageNum)
    /\ tasks' = Ended(s)
    /\ event' = Ev(tasks[s].kind, "done", tasks[s].pre)
    /\ UNCHANGED <<editMode, session, thumbnails, canvas, failures, commits, started>>
    /\ UNCHANGED geom

\* any library or host promise rejects
Fail(s) ==
    /\ tasks[s].kind # "idle"
    /\ failures < MaxFailures
    /\ failures' = failures + 1
    /\ Rejected(s)
    /\ UNCHANGED geom

\* --------------------------------------------------- open, navigate, save
\* lines 196-197
OpenPdfClick ==
    /\ NoFocus
    /\ Spawn(tasks, NewTask("open", "open_dialog"))
    /\ event' = Ev("open", "start", NoPre)
    /\ UNCHANGED <<editMode, session, dom, edits, failures, commits>>
    /\ UNCHANGED geom

\* line 197 resumes (src/main.js lines 20-30: a path, or nothing on cancel)
OpenDialogResume(s) ==
    /\ tasks[s].pc = "open_dialog"
    /\ \/ /\ tasks' = [tasks EXCEPT ![s].pc = "open_read"]
          /\ event' = Ev("open", "step", NoPre)
       \/ /\ tasks' = Ended(s)
          /\ event' = Ev("open", "canceled", tasks[s].pre)
    /\ UNCHANGED <<editMode, session, dom, edits, failures, commits, started>>
    /\ UNCHANGED geom

\* line 199 resumes, line 200
OpenReadResume(s) ==
    /\ tasks[s].pc = "open_read"
    /\ EnterLoad(s, SampleBytes)
    /\ UNCHANGED geom

\* lines 211-216
ThumbnailClick(p) ==
    /\ NoFocus
    /\ p \in thumbnails
    /\ IF p = currentPageNum
       THEN /\ event' = Ev("nav", "noop", Snapshot)
            /\ NoSpawn
       ELSE IF currentFileBytes.nil
       THEN /\ event' = Ev("nav", "throw", Snapshot)
            /\ NoSpawn
       ELSE /\ Spawn(tasks, [NewTask("nav", "nav_getdoc") EXCEPT
                                !.bytes = currentFileBytes, !.pageNum = p])
            /\ event' = Ev("nav", "start", NoPre)
    /\ UNCHANGED <<editMode, session, dom, edits, failures, commits>>
    /\ UNCHANGED geom

\* line 216 resumes, renderPage without its line 56
NavGetDocResumeKeepsPage(s) ==
    /\ tasks[s].pc = "nav_getdoc"
    /\ tasks' = [tasks EXCEPT ![s].pc = "page_getpage"]
    /\ event' = Ev("nav", "step", NoPre)
    /\ UNCHANGED <<editMode, session, dom, edits, failures, commits, started>>
    /\ UNCHANGED geom

\* line 216 resumes, line 217 and renderPage up to its await (line 57)
NavGetDocResume(s) ==
    /\ tasks[s].pc = "nav_getdoc"
    /\ currentPageNum' = tasks[s].pageNum
    /\ tasks' = [tasks EXCEPT ![s].pc = "page_getpage"]
    /\ event' = Ev("nav", "step", NoPre)
    /\ UNCHANGED <<editMode, pdfDoc, totalPages, currentFileBytes, dom, edits, failures, commits, started>>
    /\ UNCHANGED geom

\* lines 204-208
EditModeClick ==
    /\ NoFocus
    /\ editMode' = ~editMode
    /\ buttons' = [buttons EXCEPT !.save = ~editMode]
    /\ event' = Ev("mode", "done", NoPre)
    /\ UNCHANGED <<session, thumbnails, textLayer, canvas, edits, tasks, failures, commits, started>>
    /\ UNCHANGED geom

\* lines 255-257
SavePdfClick ==
    /\ NoFocus
    /\ buttons.save
    /\ IF ~pdfDoc.live
       THEN /\ event' = Ev("save", "noop", Snapshot)
            /\ NoSpawn
       ELSE /\ Spawn(tasks, [NewTask("save", "export_save") EXCEPT
                                !.bytes = Serialize(pdfDoc)])
            /\ event' = Ev("save", "start", NoPre)
    /\ UNCHANGED <<editMode, session, dom, edits, failures, commits>>
    /\ UNCHANGED geom

\* line 257 resumes, line 258
ExportSaveResume(s) ==
    /\ tasks[s].pc = "export_save"
    /\ tasks' = [tasks EXCEPT ![s].pc = "export_dialog"]
    /\ event' = Ev("save", "step", NoPre)
    /\ UNCHANGED <<editMode, session, dom, edits, failures, commits, started>>
    /\ UNCHANGED geom

\* line 258 resumes (src/main.js lines 36-46: written, or nothing on cancel)
ExportDialogResume(s) ==
    /\ tasks[s].pc = "export_dialog"
    /\ \/ event' = [Ev("save", "done", tasks[s].pre) EXCEPT !.out = tasks[s].bytes]
       \/ event' = Ev("save", "canceled", tasks[s].pre)
    /\ tasks' = Ended(s)
    /\ UNCHANGED <<editMode, session, dom, edits, failures, commits, started>>
    /\ UNCHANGED geom

\* -------------------------------------------------------- page operations
\* `const pdfBytes = await pdfDoc.save()` in the handler of the given kind
SaveTask(kind, doc) == [NewTask(kind, "save_wait") EXCEPT !.bytes = Serialize(doc)]

\* lines 222-228 without line 227: the new page is not selected
AddPageClickKeepsPage ==
    /\ NoFocus
    /\ Len(pdfDoc.pages) < MaxPages
    /\ IF ~pdfDoc.live
       THEN /\ Spawn(tasks, NewTask("add", "add_create"))
            /\ UNCHANGED pdfDoc
       ELSE /\ pdfDoc' = AddPage(pdfDoc)
            /\ Spawn(tasks, SaveTask("add", AddPage(pdfDoc)))
    /\ event' = Ev("add", "start", NoPre)
    /\ UNCHANGED <<editMode, currentPageNum, totalPages, currentFileBytes, dom, edits,
                   failures, commits>>
    /\ UNCHANGED geom

\* lines 222-228
AddPageClick ==
    /\ NoFocus
    /\ Len(pdfDoc.pages) < MaxPages
    /\ IF ~pdfDoc.live
       THEN /\ Spawn(tasks, NewTask("add", "add_create"))
            /\ UNCHANGED <<pdfDoc, currentPageNum>>
       ELSE /\ pdfDoc' = AddPage(pdfDoc)
            /\ currentPageNum' = Len(AddPage(pdfDoc).pages)
            /\ Spawn(tasks, SaveTask("add", AddPage(pdfDoc)))
    /\ event' = Ev("add", "start", NoPre)
    /\ UNCHANGED <<editMode, totalPages, currentFileBytes, dom, edits,
                   failures, commits>>
    /\ UNCHANGED geom

\* line 224 resumes, lines 226-228
AddCreateResume(s) ==
    /\ tasks[s].pc = "add_create"
    /\ pdfDoc' = AddPage(CreateDoc)
    /\ currentPageNum' = Len(AddPage(CreateDoc).pages)
    /\ tasks' = Staled([tasks EXCEPT ![s].pc = "save_wait",
                                     ![s].bytes = Serialize(AddPage(CreateDoc))])
    /\ event' = Ev("add", "step", NoPre)
    /\ UNCHANGED <<editMode, totalPages, currentFileBytes, dom, edits,
                   failures, commits, started>>
    /\ UNCHANGED geom

\* the save of lines 228, 235, 243, 251 and 164 resumes; loadPdf is called
SaveWaitResume(s) ==
    /\ tasks[s].pc = "save_wait"
    /\ EnterLoad(s, tasks[s].bytes)
    /\ UNCHANGED geom

\* line 233
DeleteGuard == ~pdfDoc.live \/ totalPages = 0

\* lines 232-235
DeletePageClick ==
    /\ NoFocus
    /\ buttons.del
    /\ IF DeleteGuard
       THEN /\ event' = Ev("delete", "noop", Snapshot)
            /\ UNCHANGED pdfDoc
            /\ NoSpawn
       ELSE IF ~InRange(pdfDoc, currentPageNum - 1)
       THEN /\ event' = Ev("delete", "throw", Snapshot)
            /\ UNCHANGED pdfDoc
            /\ NoSpawn
       ELSE /\ pdfDoc' = RemovePage(pdfDoc, currentPageNum - 1)
            /\ Spawn(AfterRemove(tasks, currentPageNum - 1),
                     SaveTask("delete", RemovePage(pdfDoc, currentPageNum - 1)))
            /\ event' = Ev("delete", "start", NoPre)
    /\ UNCHANGED <<editMode, currentPageNum, totalPages, currentFileBytes, dom,
                   edits, failures, commits>>
    /\ UNCHANGED geom

\* line 240
MoveUpGuard == ~pdfDoc.live \/ currentPageNum <= 1

\* lines 239-243 without line 242: the page number stays
MovePageUpClickKeepsPage ==
    /\ NoFocus
    /\ buttons.up
    /\ IF MoveUpGuard
       THEN /\ event' = Ev("up", "noop", Snapshot)
            /\ UNCHANGED pdfDoc
            /\ NoSpawn
       ELSE IF ~(InRange(pdfDoc, currentPageNum - 1) /\ InRange(pdfDoc, currentPageNum - 2))
       THEN /\ event' = Ev("up", "throw", Snapshot)
            /\ UNCHANGED pdfDoc
            /\ NoSpawn
       ELSE /\ pdfDoc' = MovePage(pdfDoc, currentPageNum - 1, currentPageNum - 2)
            /\ Spawn(AfterMove(tasks, currentPageNum - 1, currentPageNum - 2),
                     SaveTask("up", MovePage(pdfDoc, currentPageNum - 1, currentPageNum - 2)))
            /\ event' = Ev("up", "start", NoPre)
    /\ UNCHANGED <<editMode, currentPageNum, totalPages, currentFileBytes, dom, edits,
                   failures, commits>>
    /\ UNCHANGED geom

\* lines 239-243
MovePageUpClick ==
    /\ NoFocus
    /\ buttons.up
    /\ IF MoveUpGuard
       THEN /\ event' = Ev("up", "noop", Snapshot)
            /\ UNCHANGED <<pdfDoc, currentPageNum>>
            /\ NoSpawn
       ELSE IF ~(InRange(pdfDoc, currentPageNum - 1) /\ InRange(pdfDoc, currentPageNum - 2))
       THEN /\ event' = Ev("up", "throw", Snapshot)
            /\ UNCHANGED <<pdfDoc, currentPageNum>>
            /\ NoSpawn
       ELSE /\ pdfDoc' = MovePage(pdfDoc, currentPageNum - 1, currentPageNum - 2)
            /\ currentPageNum' = currentPageNum - 1
            /\ Spawn(AfterMove(tasks, currentPageNum - 1, currentPageNum - 2),
                     SaveTask("up", MovePage(pdfDoc, currentPageNum - 1, currentPageNum - 2)))
            /\ event' = Ev("up", "start", NoPre)
    /\ UNCHANGED <<editMode, totalPages, currentFileBytes, dom, edits,
                   failures, commits>>
    /\ UNCHANGED geom

\* line 248 without the comparison with totalPages
MoveDownGuardNoLast == ~pdfDoc.live

\* line 248
MoveDownGuard == ~pdfDoc.live \/ currentPageNum >= totalPages

\* lines 247-251
MovePageDownClick ==
    /\ NoFocus
    /\ buttons.down
    /\ IF MoveDownGuard
       THEN /\ event' = Ev("down", "noop", Snapshot)
            /\ UNCHANGED <<pdfDoc, currentPageNum>>
            /\ NoSpawn
       ELSE IF ~(InRange(pdfDoc, currentPageNum - 1) /\ InRange(pdfDoc, currentPageNum))
       THEN /\ event' = Ev("down", "throw", Snapshot)
            /\ UNCHANGED <<pdfDoc, currentPageNum>>
            /\ NoSpawn
       ELSE /\ pdfDoc' = MovePage(pdfDoc, currentPageNum - 1, currentPageNum)
            /\ currentPageNum' = currentPageNum + 1
            /\ Spawn(AfterMove(tasks, currentPageNum - 1, currentPageNum),
                     SaveTask("down", MovePage(pdfDoc, currentPageNum - 1, currentPageNum)))
            /\ event' = Ev("down", "start", NoPre)
    /\ UNCHANGED <<editMode, totalPages, currentFileBytes, dom, edits,
                   failures, commits>>
    /\ UNCHANGED geom

\* ---------------------------------------------------------------- editing
\* lines 261-281: a click on the proxy d of the overlay
TextLayerClick(d) ==
    /\ NoFocus
    /\ editMode
    /\ d \in 1..Len(textLayer.divs)
    /\ textLayer.divs[d].shown
    /\ IF textLayer.input # 0
       THEN /\ event' = Ev("edit", "noop", NoPre)
            /\ UNCHANGED <<textLayer, edits>>
       ELSE /\ \E e \in EditIds :
                 /\ edits[e].st = "none"
                 /\ \A f \in EditIds : f < e => edits[f].st # "none"
                 /\ edits' = [edits EXCEPT ![e] =
                        [st |-> "open", div |-> d, orig |-> textLayer.divs[d].str,
                         value |-> textLayer.divs[d].text, res |-> "none"]]
                 /\ textLayer' = [textLayer EXCEPT !.divs[d].shown = FALSE,
                                                   !.input = e, !.focused = TRUE]
            /\ event' = Ev("edit", "open", NoPre)
    /\ UNCHANGED <<editMode, session, thumbnails, canvas, buttons, tasks, failures, commits, started>>
    /\ UNCHANGED geom

\* the text the user types into the input of edit e
NewText(e) == e

\* the user changes the value of the focused input
TypeText ==
    /\ textLayer.input # 0
    /\ textLayer.focused
    /\ \E v \in {edits[textLayer.input].orig, NewText(textLayer.input)} :
         /\ v # edits[textLayer.input].value
         /\ edits' = [edits EXCEPT ![textLayer.input].value = v]
    /\ event' = Ev("type", "done", NoPre)
    /\ UNCHANGED <<editMode, session, dom, tasks, failures, commits, started>>
    /\ UNCHANGED geom

\* line 285 without the comparison: every commit counts as a change
AlwaysChanged(e) == TRUE

\* line 285
Changed(e) == edits[e].orig # edits[e].value

\* lines 288-290 with the proxy and the input as they are now
FinishTail(e, layer) ==
    [layer EXCEPT !.divs = IF edits[e].div = 0 THEN @
                           ELSE [@ EXCEPT ![edits[e].div] =
                                   [@ EXCEPT !.text = edits[e].value, !.shown = TRUE]],
                  !.input = IF @ = e THEN 0 ELSE @,
                  !.focused = IF layer.input = e THEN FALSE ELSE @]

\* onFinishEditing (lines 283-291) and modifyPdfText up to its first await
\* (lines 132-159), called for the input of edit e; layer is the text layer
\* when the listener runs
OnFinishEditing(e, layer) ==
    IF ~Changed(e) \/ ~pdfDoc.live
    THEN /\ textLayer' = FinishTail(e, layer)
         /\ edits' = [edits EXCEPT ![e] = DoneEdit(edits[e].res)]
         /\ event' = Ev("commit", IF Changed(e) THEN "nodoc" ELSE "same", Snapshot)
         /\ UNCHANGED <<pdfDoc, commits, geom>>
         /\ NoSpawn
    ELSE IF ~InRange(pdfDoc, currentPageNum - 1)
    THEN /\ textLayer' = layer
         /\ event' = Ev("commit", "throw", Snapshot)
         /\ edits' = [edits EXCEPT ![e].res = IF @ = "none" THEN "failed" ELSE @]
         /\ UNCHANGED <<pdfDoc, commits, geom>>
         /\ NoSpawn
    ELSE /\ commits < MaxCommits
         /\ textLayer' = layer
         /\ pdfDoc' = DrawOn(pdfDoc, currentPageNum - 1, Mark("rect", e))
         /\ geom' = CoverDrawn(geom)
         /\ Spawn(tasks, [NewTask("finish", "embed_font") EXCEPT !.edit = e,
                             !.val = edits[e].value, !.pageIdx = currentPageNum - 1])
         /\ commits' = commits + 1
         /\ event' = Ev("commit", "start", NoPre)
         /\ UNCHANGED edits

\* lines 294-296: Enter in the focused input
PressEnter ==
    /\ textLayer.input # 0
    /\ textLayer.focused
    /\ OnFinishEditing(textLayer.input, textLayer)
    /\ UNCHANGED <<editMode, currentPageNum, totalPages, currentFileBytes,
                   thumbnails, canvas, buttons, failures>>

\* line 293: the focused input loses the focus
BlurInput ==
    /\ textLayer.input # 0
    /\ textLayer.focused
    /\ OnFinishEditing(textLayer.input, [textLayer EXCEPT !.focused = FALSE])
    /\ UNCHANGED <<editMode, currentPageNum, totalPages, currentFileBytes,
                   thumbnails, canvas, buttons, failures>>

\* modifyPdfText, line 159 resumes: lines 156-164.  The text goes to the page
\* object taken at line 135; pdfDoc.save() is a TypeError when pdfDoc is null.
EmbedFontResume(s) ==
    /\ tasks[s].pc = "embed_font"
    /\ IF ~pdfDoc.live
       THEN Rejected(s) /\ UNCHANGED geom
       ELSE /\ pdfDoc' = IF tasks[s].stale THEN pdfDoc
                         ELSE DrawOn(pdfDoc, tasks[s].pageIdx, Mark("text", tasks[s].edit))
            /\ geom' = IF tasks[s].stale THEN geom ELSE TextDrawn(geom)
            /\ tasks' = [tasks EXCEPT ![s].pc = "save_wait",
                            ![s].bytes = Serialize(pdfDoc')]
            /\ event' = Ev("finish", "step", NoPre)
            /\ UNCHANGED <<editMode, currentPageNum, totalPages, currentFileBytes,
                           dom, edits, commits, started>>
    /\ UNCHANGED failures

\* ------------------------------------------------------------------- Next
\* the events whose handler may stay in flight
UserAsync ==
    \/ OpenPdfClick
    \/ SavePdfClick
    \/ AddPageClick
    \/ DeletePageClick
    \/ MovePageUpClick
    \/ MovePageDownClick
    \/ \E p \in 1..MaxPages : ThumbnailClick(p)
    \/ PressEnter
    \/ BlurInput

\* the events whose handler has no await
UserSync ==
    \/ EditModeClick
    \/ \E d \in 1..(1 + MaxCommits) : TextLayerClick(d)
    \/ TypeText

Resume(s) ==
    \/ InitFetchResume(s)
    \/ InitBufferResume(s)
    \/ OpenDialogResume(s)
    \/ OpenReadResume(s)
    \/ NavGetDocResume(s)
    \/ AddCreateResume(s)
    \/ SaveWaitResume(s)
    \/ EmbedFontResume(s)
    \/ ExportSaveResume(s)
    \/ ExportDialogResume(s)
    \/ LoadParseResume(s)
    \/ LoadGetDocResume(s)
    \/ ThumbGetPageResume(s)
    \/ ThumbRenderResume(s)
    \/ PageGetPageResume(s)
    \/ PageRenderResume(s)
    \/ TextContentResume(s)
    \/ Fail(s)

\* every interleaving of the handlers at their awaits, for the first
\* MaxStarts handlers the user starts
Next ==
    \/ started < MaxStarts /\ UserAsync
    \/ UserSync
    \/ \E s \in Slots : Resume(s)
Spec == Init /\ [][Next]_vars

\* each handler runs to completion before the next event is delivered
SeqNext == (Idle /\ (UserAsync \/ UserSync)) \/ \E s \in Slots : Resume(s)
SeqSpec == Init /\ [][SeqNext]_vars

\* ----------------------------------------------------- one edit, followed
\* The session after sample.pdf has loaded, page p has been selected, edit
\* mode is on, the first run of the page has been clicked and a text typed
\* (one navigation has been started when p is not the first page): the
\* commit of that edit is followed with the itemData of the proxy.
EditInit ==
    /\ editMode = TRUE
    /\ pdfDoc = ParseDoc(SampleBytes)
    /\ currentPageNum \in 1..SampleLen
    /\ totalPages = SampleLen
    /\ currentFileBytes = SampleBytes
    /\ thumbnails = 1..SampleLen
    /\ textLayer = [divs |-> [Proxies(SampleBytes.pages[currentPageNum])
                                EXCEPT ![1].shown = FALSE],
                    input |-> 1, focused |-> TRUE, pageNum |-> currentPageNum]
    /\ canvas = [painted |-> TRUE, id |-> SampleBytes.pages[currentPageNum].id]
    /\ buttons = WithPageButtons([del |-> TRUE, up |-> TRUE, down |-> TRUE, save |-> TRUE],
                                 SampleLen, currentPageNum)
    /\ edits = [e \in EditIds |->
                  IF e = 1 THEN [st |-> "open", div |-> 1, orig |-> 0, value |-> NewText(1),
                                 res |-> "none"]
                  ELSE NoEdit]
    /\ tasks = [s \in Slots |-> IdleTask]
    /\ failures = 0
    /\ commits = 0
    /\ started = (IF currentPageNum = 1 THEN 0 ELSE 1)
    /\ event = Ev("type", "done", NoPre)
    /\ \E it \in Items, ph \in PageHeights :
          geom = [NoGeom EXCEPT !.item = it, !.pageHeight = ph]

\* the commit of the edit and the continuations of modifyPdfText
EditResume(s) ==
    \/ EmbedFontResume(s)
    \/ SaveWaitResume(s)
    \/ LoadParseResume(s)
    \/ LoadGetDocResume(s)
    \/ ThumbGetPageResume(s)
    \/ ThumbRenderResume(s)
    \/ PageGetPageResume(s)
    \/ PageRenderResume(s)
    \/ TextContentResume(s)

EditNext ==
    \/ Idle /\ PressEnter
    \/ Idle /\ BlurInput
    \/ \E s \in Slots : EditResume(s)
EditSpec == EditInit /\ [][EditNext]_vars

\* ----------------------------------------------------------------- claims
\* the handlers that end with loadPdf
Loading == {"init", "open", "add", "delete", "up", "down", "finish"}
\* the step ended a loadPdf that ran to its end
LoadCompleted == event.op \in Loading /\ event.res \in {"done", "cleared"}
\* some handler is inside loadPdf
LoadInProgress == \E s \in Slots : tasks[s].pc \in LoadPcs

\* C1: handlers run one at a time.  After every loadPdf that completes with
\* totalPages > 0 the page number is within 1..totalPages, and a load that
\* finds no page leaves currentPageNum = 1; as long as no promise has been
\* rejected the same holds whenever no handler is in flight.
C1_PageIndexInvariant ==
    /\ (LoadCompleted /\ event.res = "done") =>
          (totalPages > 0 /\ 1 <= currentPageNum /\ currentPageNum <= totalPages)
    /\ (LoadCompleted /\ event.res = "cleared") =>
          (totalPages = 0 /\ currentPageNum = 1)
    /\ (Idle /\ failures = 0) =>
          IF totalPages > 0 THEN 1 <= currentPageNum /\ currentPageNum <= totalPages
          ELSE currentPageNum = 1
\* the last page was deleted and the reload brought the page number down
C1_Witness ==
    /\ event.op = "delete" /\ event.res = "done"
    /\ event.pre.cur = event.pre.total
    /\ currentPageNum = totalPages
    /\ currentPageNum < event.pre.cur

\* both views and the page count come from the stored buffer
SameBuffer ==
    IF pdfDoc.live
    THEN pdfDoc.src = currentFileBytes /\ totalPages = NumPages(currentFileBytes)
    ELSE currentFileBytes.nil /\ totalPages = 0
\* C2: while no loadPdf is in progress, pdfDoc was parsed from the buffer
\* currentFileBytes holds and totalPages is the page count of that buffer.
\* Stated for the runs in which no promise is rejected, so that only the
\* interleaving of the handlers is at issue.
C2_ViewsShareBuffer == (failures = 0 /\ ~LoadInProgress) => SameBuffer

\* C3: handlers run one at a time.  When a promise a mutating handler (or
\* save) awaits is rejected, the session is what it was when the handler
\* started.
C3_AbortLeavesSession ==
    (event.res = "fail" /\ event.op \in Mutating \cup {"save"}) => Snapshot = event.pre

\* the edits for which modifyPdfText raised
FailedEdits == {e \in EditIds : edits[e].res = "failed"}
\* C4: handlers run one at a time.  The rectangle and the text of an edit
\* for which modifyPdfText raised are in no buffer handed to saveFile and in
\* no buffer a later mutating handler loads.
C4_FailedEditNotPersisted ==
    /\ MarksOf(event.out) \cap FailedEdits = {}
    /\ (LoadCompleted /\ event.op \in Mutating) =>
          MarksOf(currentFileBytes) \cap FailedEdits = {}

\* C5: at most one mutating handler (add, delete, move, edit application)
\* is in flight.
C5_OneMutatingOp == Cardinality({s \in Slots : tasks[s].kind \in Mutating}) <= 1

\* the edits opened and not yet through their commit
PendingEdits ==
    {e \in EditIds : edits[e].st = "open" /\ (textLayer.input = e \/ Committing(tasks, e))}
\* C6: at most one edit is open: opened, with its input still in the text
\* layer or a commit of it still in flight.
C6_OnePendingEdit == Cardinality(PendingEdits) <= 1

\* C7: a commit (Enter or blur) while the input's value equals itemData.str
\* starts no handler and leaves pdfDoc, currentFileBytes, currentPageNum and
\* totalPages as they are.
C7_SameTextCommitIsNoOp ==
    [][(event'.op = "commit" /\ textLayer.input # 0
          /\ edits[textLayer.input].value = edits[textLayer.input].orig)
          => UNCHANGED <<session, tasks, commits>>]_vars
C7_Witness ==
    /\ event.op = "commit" /\ event.res = "same"
    /\ pdfDoc.live
    /\ Snapshot = event.pre

\* C8: a click on move-up while currentPageNum = 1, or on move-down while
\* currentPageNum = totalPages, changes neither the session nor the viewer
\* and starts no handler.
C8_MoveAtBoundaryIsNoOp ==
    [][((event'.op = "up" /\ event'.res \in {"start", "noop", "throw"} /\ currentPageNum = 1)
        \/ (event'.op = "down" /\ event'.res \in {"start", "noop", "throw"}
              /\ currentPageNum = totalPages))
          => UNCHANGED <<session, dom, tasks>>]_vars
C8_Witness ==
    /\ event.op = "down" /\ event.res = "noop"
    /\ pdfDoc.live
    /\ Len(pdfDoc.pages) > 1
    /\ currentPageNum = totalPages

\* C9: handlers run one at a time.  A delete that started on a session of
\* exactly one page ends in the empty viewer: no page, no thumbnail, no
\* proxy, a blank canvas, currentPageNum = 1, the page buttons hidden, and it
\* ends in clearViewer, not in renderPage.
C9_DeleteSolePage ==
    (event.op = "delete" /\ event.res \in {"done", "cleared"}
        /\ event.pre.total = 1 /\ Len(event.pre.doc.pages) = 1) =>
            /\ event.res = "cleared"
            /\ totalPages = 0
            /\ currentPageNum = 1
            /\ thumbnails = {}
            /\ textLayer = EmptyLayer
            /\ canvas = BlankCanvas
            /\ ~buttons.del /\ ~buttons.up /\ ~buttons.down
C9_Witness ==
    /\ event.op = "delete" /\ event.res = "cleared"
    /\ event.pre.total = 1 /\ Len(event.pre.doc.pages) = 1
    /\ totalPages = 0

\* C10: handlers run one at a time.  An add that started on a session of n
\* pages (n = 0: no document) ends with a document of n + 1 pages,
\* totalPages = n + 1 and currentPageNum = n + 1.
C10_AddPage ==
    (event.op = "add" /\ event.res \in {"done", "cleared"}
        /\ Len(event.pre.doc.pages) = event.pre.total
        /\ (event.pre.doc.live \/ event.pre.total = 0)) =>
            /\ event.res = "done"
            /\ pdfDoc.live
            /\ Len(pdfDoc.pages) = event.pre.total + 1
            /\ totalPages = event.pre.total + 1
            /\ currentPageNum = event.pre.total + 1
C10_Witness ==
    /\ event.op = "add" /\ event.res = "done"
    /\ ~event.pre.doc.live /\ event.pre.total = 0
    /\ totalPages = 1 /\ currentPageNum = 1

\* the session a handler started from holds a document of as many pages as
\* totalPages says, with a page selected
Consistent(pre) ==
    /\ pre.doc.live
    /\ Len(pre.doc.pages) = pre.total
    /\ pre.cur \in 1..pre.total

\* C12: handlers run one at a time.  The step that ends a thumbnail
\* navigation to page q leaves pdfDoc, currentFileBytes and totalPages as
\* they were at the click, with currentPageNum = q (another page than
\* before), the canvas painted with page q of currentFileBytes and the
\* overlay holding the runs of that page; a click on the thumbnail of the
\* current page changes nothing and starts no handler.
C12_NavigationFrame ==
    [][/\ (event'.op = "nav" /\ event'.res = "done") =>
             \E s \in Slots :
                /\ tasks[s].kind = "nav" /\ tasks'[s].kind = "idle"
                /\ currentPageNum' = tasks[s].pageNum
                /\ currentPageNum' # tasks[s].pre.cur
                /\ pdfDoc' = tasks[s].pre.doc
                /\ currentFileBytes' = tasks[s].pre.bytes
                /\ totalPages' = tasks[s].pre.total
                /\ canvas' = [painted |-> TRUE,
                              id |-> currentFileBytes'.pages[tasks[s].pageNum].id]
                /\ textLayer'.pageNum = tasks[s].pageNum
                /\ textLayer'.divs = Proxies(currentFileBytes'.pages[tasks[s].pageNum])
       /\ (event'.op = "nav" /\ event'.res = "noop") => UNCHANGED <<session, dom, tasks>>
      ]_vars
C12_Witness ==
    /\ event.op = "nav" /\ event.res = "done"
    /\ event.pre.cur = 1 /\ currentPageNum = 2
    /\ textLayer.pageNum = 2
    /\ pdfDoc = event.pre.doc

\* the sequence ps without its element at position p
Without(ps, p) == [k \in 1..(Len(ps) - 1) |-> IF k < p THEN ps[k] ELSE ps[k + 1]]
\* C13: handlers run one at a time.  A delete that runs to its end on page p
\* of a document of n >= 2 pages leaves the document without exactly that
\* page, the others in their order, totalPages = n - 1 and currentPageNum =
\* p when p < n, n - 1 when p = n; the click itself leaves currentPageNum as
\* it is.
C13_DeletePage ==
    /\ []((event.op = "delete" /\ event.res \in {"done", "cleared"}
              /\ Consistent(event.pre) /\ event.pre.total >= 2) =>
                 /\ event.res = "done"
                 /\ pdfDoc.pages = Without(event.pre.doc.pages, event.pre.cur)
                 /\ totalPages = event.pre.total - 1
                 /\ currentPageNum = IF event.pre.cur < event.pre.total
                                     THEN event.pre.cur ELSE event.pre.total - 1)
    /\ [][(event'.op = "delete" /\ event'.res \in {"start", "noop", "throw"})
             => currentPageNum' = currentPageNum]_vars
C13_Witness ==
    /\ event.op = "delete" /\ event.res = "done"
    /\ event.pre.total = 3 /\ event.pre.cur = 2
    /\ event.pre.doc.pages[1] # event.pre.doc.pages[3]
    /\ pdfDoc.pages = <<event.pre.doc.pages[1], event.pre.doc.pages[3]>>
    /\ currentPageNum = 2

\* the sequence ps with its elements at positions i and j exchanged
Swapped(ps, i, j) ==
    [k \in 1..Len(ps) |-> IF k = i THEN ps[j] ELSE IF k = j THEN ps[i] ELSE ps[k]]
\* C14: handlers run one at a time.  A move-up that runs to its end on page
\* p > 1 exchanges the pages at p and p - 1 and selects p - 1; a move-down on
\* page p < totalPages exchanges p and p + 1 and selects p + 1; the selected
\* page is the same page as before, the other pages and totalPages are as
\* they were.  On the document of every reachable state, moving a page up
\* and then down (or down and then up) gives the page order back.
C14_MovePage ==
    /\ (event.op = "up" /\ event.res \in {"done", "cleared"}
           /\ Consistent(event.pre) /\ event.pre.cur > 1) =>
              /\ event.res = "done"
              /\ pdfDoc.pages = Swapped(event.pre.doc.pages, event.pre.cur, event.pre.cur - 1)
              /\ currentPageNum = event.pre.cur - 1
              /\ pdfDoc.pages[currentPageNum] = event.pre.doc.pages[event.pre.cur]
              /\ totalPages = event.pre.total
    /\ (event.op = "down" /\ event.res \in {"done", "cleared"}
           /\ Consistent(event.pre) /\ event.pre.cur < event.pre.total) =>
              /\ event.res = "done"
              /\ pdfDoc.pages = Swapped(event.pre.doc.pages, event.pre.cur, event.pre.cur + 1)
              /\ currentPageNum = event.pre.cur + 1
              /\ pdfDoc.pages[currentPageNum] = event.pre.doc.pages[event.pre.cur]
              /\ totalPages = event.pre.total
    /\ \A p \in 1..Len(pdfDoc.pages) :
          /\ p > 1 => MovePage(MovePage(pdfDoc, p - 1, p - 2), p - 2, p - 1) = pdfDoc
          /\ p < Len(pdfDoc.pages) => MovePage(MovePage(pdfDoc, p - 1, p), p, p - 1) = pdfDoc
C14_Witness ==
    /\ event.op = "up" /\ event.res = "done"
    /\ event.pre.cur = 2 /\ currentPageNum = 1
    /\ event.pre.doc.pages[1] # event.pre.doc.pages[2]
    /\ pdfDoc.pages[1] = event.pre.doc.pages[2]
    /\ pdfDoc.pages[2] = event.pre.doc.pages[1]

\* the commit of edit e has run and no handler is left working on it
Committed(e) == edits[e].res # "none" /\ ~Committing(tasks, e)
\* C15: handlers run one at a time.  Once the commit of an edit is over,
\* whether modifyPdfText returned or raised, the inline input of the edit is
\* no longer in the text layer and its proxy, if still there, is shown.
C15_EditReturnsToDisplay ==
    \A e \in EditIds :
       Committed(e) =>
          /\ textLayer.input # e
          /\ (edits[e].div # 0 => textLayer.divs[edits[e].div].shown)

\* C16: as long as no library promise has been rejected, every renderPage
\* suspended at its getPage (line 57) was called with a page number that the
\* document it was given has, however loads and navigations overlap.
C16_RenderPageInRange ==
    failures = 0 =>
       \A s \in Slots :
          tasks[s].pc = "page_getpage" =>
             tasks[s].pageNum \in 1..NumPages(tasks[s].bytes)

C19_EditAppliedOnce ==
    \A e \in EditIds :
       /\ Cardinality({s \in Slots : tasks[s].kind = "finish" /\ tasks[s].edit = e}) <= 1
       /\ pdfDoc.live =>
             \A i \in 1..Len(pdfDoc.pages) :
                Cardinality({j \in 1..Len(pdfDoc.pages[i].marks) :
                                pdfDoc.pages[i].marks[j] = Mark("rect", e)}) <= 1

\* C20: as long as no library promise has been rejected, with no handler in
\* flight and totalPages > 0 the page number is within 1..totalPages, however
\* navigations and reloads were interleaved.
C20_PageIndexAfterInterleaving ==
    (Idle /\ failures = 0 /\ totalPages > 0) =>
        (1 <= currentPageNum /\ currentPageNum <= totalPages)

\* C11: one edit is followed, from its commit to the end of the reload.  An
\* edit that runs to its end on page p of a document of n pages has drawn,
\* for the proxy with transform [a, b, c, d, e, f], one rectangle and then
\* one text on page p after what the page held, the text at
\* (e, pageHeight - f); every other page is what it was, and the reload ends
\* with totalPages = n and currentPageNum = p.
C11_EditDrawsOnPage ==
    (event.op = "finish" /\ event.res \in {"done", "cleared"} /\ Consistent(event.pre)) =>
        /\ event.res = "done"
        /\ Len(pdfDoc.pages) = event.pre.total
        /\ \E e \in EditIds :
              pdfDoc.pages[event.pre.cur] =
                 [event.pre.doc.pages[event.pre.cur] EXCEPT
                     !.marks = @ \o <<Mark("rect", e), Mark("text", e)>>]
        /\ \A q \in 1..event.pre.total :
              q # event.pre.cur => pdfDoc.pages[q] = event.pre.doc.pages[q]
        /\ totalPages = event.pre.total
        /\ currentPageNum = event.pre.cur
        /\ geom.rect.drawn /\ geom.text.drawn
        /\ geom.text.x = 10 * geom.item.transform[5]
        /\ geom.text.y = 10 * (geom.pageHeight - geom.item.transform[6])
C11_Witness ==
    /\ event.op = "finish" /\ event.res = "done"
    /\ event.pre.cur = 2 /\ event.pre.total = 2
    /\ geom.item = ItemData(12, 0, 0, 12, 100, 700, 30, 12)
    /\ geom.pageHeight = 792
    /\ geom.text.drawn /\ geom.text.x = 1000 /\ geom.text.y = 920

\* C17: one edit is followed.  The rectangle drawn for a run with anchor
\* (x, y_doc), width w and height h reaches from x or left of it to x + w or
\* right of it, and from y_doc or below it to y_doc + h or above it.
C17_CoverContainsRun ==
    geom.rect.drawn =>
        LET x == 10 * geom.item.transform[5]
            yDoc == 10 * (geom.pageHeight - geom.item.transform[6])
            w == 10 * geom.item.width
            h == 10 * geom.item.height
        IN /\ geom.rect.x <= x
           /\ geom.rect.y <= yDoc
           /\ geom.rect.x + geom.rect.width >= x + w
           /\ geom.rect.y + geom.rect.height >= yDoc + h
====
